---- MODULE Spec2Model ----
(***************************************************************************)
(* PSP-KillSwitch: the suspend-veto decision engine of the two plugins.    *)
(*                                                                         *)
(*   push variant  (src/killswitch.c): a power callback latches allow_sleep *)
(*       on every power-switch edge, killswitchSysEventHandler answers the  *)
(*       suspend events and owns the consecutive-block ceiling.             *)
(*   poll variant  (src/killswitch_hold.c): main_thread polls the hold      *)
(*       switch, suspend_event_handler answers from sleep_allowed.          *)
(*                                                                         *)
(* The two plugins are separate modules; `variant` says which one is       *)
(* loaded.  Three specifications share the state:                          *)
(*   Spec      the loaded module after a successful module_start; every    *)
(*             handler runs to completion in one step;                     *)
(*   LifeSpec  module_start, the worker thread and module_stop, one kernel *)
(*             call per step, every call that can fail failing or not;     *)
(*   RaceSpec  the two handlers of killswitch.c one statement per step.    *)
(***************************************************************************)
EXTENDS Integers, FiniteSets, Sequences, TLC

VARIABLES
    variant,                  \* "push" (killswitch.c) or "poll" (killswitch_hold.c)
    \* ---- killswitch.c
    allow_sleep,              \* bool allow_sleep
    consecutive_sleep_blocks, \* int consecutive_sleep_blocks
    \* ---- killswitch_hold.c
    sleep_allowed,            \* bool sleep_allowed
    run,                      \* bool run
    events_registered,        \* `events` is registered with the sysevent bus
    main_pc,                  \* where main_thread is: "poll", "settle", "sleep", "exited"
    delay_left,               \* ticks left of main_thread's current sceKernelDelayThread
    hold_engaged,             \* the physical hold switch (environment)
    \* ---- history of the run (never read by the handlers)
    ev,                       \* the last handler step that ran
    prev_ev,                  \* the one before it
    denial_run,               \* push: SUSPEND_QUERYs answered BUSY in a row, no power callback between
    fresh_queries,            \* push: queries since a press that turned the veto on, -1 when not in such a run
    last_cb,                  \* push: the last power callback that ran (NoEvent before the first)
    ceiling_since,            \* push: the ceiling branch has run since that callback
    since_release,            \* poll: ticks since main_thread saw hold go engaged -> disengaged
    rets_since_release,       \* poll: the answers given to SUSPEND_QUERY since then
    seen_engaged,             \* poll: main_thread has sampled hold engaged
    last_sample,              \* poll: outcome of main_thread's last sample
    query_parity,             \* flips on every SUSPEND_QUERY the host issues
    \* ---- module lifecycle (module_start / module_stop and the threads they own)
    loader_pc,                \* where the thread running module_start / module_stop is
    start_ret,                \* {} until module_start returns, then {its return value}
    stop_ret,                 \* {} until module_stop returns, then {its return value}
    result,                   \* killswitch_hold.c: the local `result` of module_start / module_stop
    callback_thid,            \* int callback_thid (killswitch.c)
    sys_registered,           \* killswitch.c: sys_event is registered with the sysevent bus
    th_state,                 \* killswitch.c worker: "none", "dormant", "running", "exited", "deleted"
    th_pc,                    \* where callback_thread is
    cb_state,                 \* the power callback object: "none", "created", "deleted",
                              \* "delete_failed" (sceKernelDeleteCallback was called and refused)
    slot,                     \* callback_thread's local `slot`
    reg_callback_ret,         \* callback_thread's local `reg_callback_ret`
    held_slots,               \* power-callback slots this module has registered and not released
    wakeups,                  \* pending sceKernelWakeupThread requests for the worker
    \* ---- history of the lifecycle (never read by the code)
    stop_steps,               \* the teardown calls module_stop has made, in order
    reg_failures,             \* which registrations of start-up have failed
    tried,                    \* the slots passed to scePowerRegisterCallback, in order
    unreg_slot,               \* the slots passed to scePowerUnregisterCallback
    \* ---- killswitch.c, the two handlers statement by statement (RaceSpec)
    sys_pc,                   \* where killswitchSysEventHandler is: "idle" when not running
    cb_pc                     \* where power_callback_handler is: "idle" when not running

pushvars == <<allow_sleep, consecutive_sleep_blocks>>
pollvars == <<sleep_allowed, run, events_registered, main_pc, delay_left, hold_engaged>>
pushhist == <<denial_run, fresh_queries, last_cb, ceiling_since>>
pollhist == <<since_release, rets_since_release, seen_engaged, last_sample>>
loadervars == <<loader_pc, start_ret, stop_ret, result, stop_steps, reg_failures>>
workervars == <<th_state, th_pc, cb_state, slot, reg_callback_ret, held_slots, wakeups,
                tried, unreg_slot>>
lifevars == <<loadervars, callback_thid, sys_registered, workervars>>
racevars == <<sys_pc, cb_pc>>
vars == <<variant, pushvars, pollvars, ev, prev_ev, pushhist, pollhist, query_parity,
          lifevars, racevars>>

----------------------------------------------------------------------------
(* Program constants *)

MAX_CONSECUTIVE_SLEEPS == 10

SCE_ERROR_OK == 0
\* 0x80000021, as the value of the handler's int return
SCE_ERROR_BUSY == -2147483615

SCE_SUSPEND_EVENTS == 65280
SCE_SYSTEM_SUSPEND_EVENT_QUERY == 256
SCE_SYSTEM_SUSPEND_EVENT_CANCELLATION == 257
SCE_SYSTEM_SUSPEND_EVENT_START == 258

\* #define BUTTON_COMBO_MASK PSP_CTRL_HOME; a button word is the set of its bits
BUTTON_COMBO_MASK == {"HOME"}
PSP_CTRL_HOLD == {"HOLD"}

ONE_MSEC == 1000
ONE_SEC == 1000 * ONE_MSEC
DISABLE_DURATION == ONE_SEC

----------------------------------------------------------------------------
(* Inputs *)

RECURSIVE BitAnd(_, _)
BitAnd(a, b) ==
    IF a = 0 \/ b = 0 THEN 0
    ELSE (a % 2) * (b % 2) + 2 * BitAnd(a \div 2, b \div 2)

\* Event ids the host may raise: the three suspend events the plugin names, one
\* more suspend-class event (0x200) and one resume-class event (0x10000).
HostEventIds ==
    {SCE_SYSTEM_SUSPEND_EVENT_QUERY, SCE_SYSTEM_SUSPEND_EVENT_CANCELLATION,
     SCE_SYSTEM_SUSPEND_EVENT_START, 512, 65536}

\* The handlers are registered with type_mask 0x0000FF00 and see only these.
DeliveredEventIds == {e \in HostEventIds : BitAnd(e, SCE_SUSPEND_EVENTS) # 0}

\* pwrflags of a power callback, as the set of flags that are set
PowerFlags == SUBSET {"POWER_SWITCH", "HOLD_SWITCH", "STANDBY"}

\* pad_state.Buttons, as the set of buttons that are set
ButtonWords == SUBSET {"HOME", "CROSS", "HOLD"}

\* return values of sceCtrlPeekBufferPositive(&pad_state, 1): an error, or 1 buffer read
PeekRets == {-1, 1}

----------------------------------------------------------------------------
(* History records *)

Event(kind, id, ret, switch, read_ok, combo, hold, allow_before, blocks_before, run_before) ==
    [kind |-> kind, id |-> id, ret |-> ret, switch |-> switch, read_ok |-> read_ok,
     combo |-> combo, hold |-> hold, allow_before |-> allow_before,
     blocks_before |-> blocks_before, run_before |-> run_before]

NoEvent == Event("none", 0, 0, FALSE, FALSE, FALSE, FALSE, TRUE, 0, 0)

IsQuery(e) == e.kind = "sysevent" /\ e.id = SCE_SYSTEM_SUSPEND_EVENT_QUERY

----------------------------------------------------------------------------
(* killswitch.c *)

BelowCeiling_OffByOne(blocks) == blocks <= MAX_CONSECUTIVE_SLEEPS

\* if(consecutive_sleep_blocks < MAX_CONSECUTIVE_SLEEPS)
BelowCeiling(blocks) == blocks < MAX_CONSECUTIVE_SLEEPS

SysEventOutcome_CountsCeilingQuery(ev_id, allow, blocks) ==
    IF ev_id = SCE_SYSTEM_SUSPEND_EVENT_QUERY /\ ~allow
    THEN IF BelowCeiling(blocks)
         THEN [allow_sleep |-> allow, blocks |-> blocks + 1, ret |-> SCE_ERROR_BUSY]
         ELSE [allow_sleep |-> TRUE, blocks |-> blocks + 1, ret |-> SCE_ERROR_OK]
    ELSE [allow_sleep |-> allow, blocks |-> blocks, ret |-> SCE_ERROR_OK]

SysEventOutcome_AnySuspendEvent(ev_id, allow, blocks) ==
    IF BitAnd(ev_id, SCE_SYSTEM_SUSPEND_EVENT_QUERY) # 0 /\ ~allow
    THEN IF BelowCeiling(blocks)
         THEN [allow_sleep |-> allow, blocks |-> blocks + 1, ret |-> SCE_ERROR_BUSY]
         ELSE [allow_sleep |-> TRUE, blocks |-> blocks, ret |-> SCE_ERROR_OK]
    ELSE [allow_sleep |-> allow, blocks |-> blocks, ret |-> SCE_ERROR_OK]

SysEventOutcome_CeilingKeepsVeto(ev_id, allow, blocks) ==
    IF ev_id = SCE_SYSTEM_SUSPEND_EVENT_QUERY /\ ~allow
    THEN IF BelowCeiling(blocks)
         THEN [allow_sleep |-> allow, blocks |-> blocks + 1, ret |-> SCE_ERROR_BUSY]
         ELSE [allow_sleep |-> allow, blocks |-> blocks, ret |-> SCE_ERROR_OK]
    ELSE [allow_sleep |-> allow, blocks |-> blocks, ret |-> SCE_ERROR_OK]

\* killswitchSysEventHandler: the new allow_sleep, the new
\* consecutive_sleep_blocks and the value returned
SysEventOutcome(ev_id, allow, blocks) ==
    IF ev_id = SCE_SYSTEM_SUSPEND_EVENT_QUERY /\ ~allow
    THEN IF BelowCeiling(blocks)
         THEN [allow_sleep |-> allow, blocks |-> blocks + 1, ret |-> SCE_ERROR_BUSY]
         ELSE [allow_sleep |-> TRUE, blocks |-> blocks, ret |-> SCE_ERROR_OK]
    ELSE [allow_sleep |-> allow, blocks |-> blocks, ret |-> SCE_ERROR_OK]

PressDecision_ExactCombo(peek_ret, Buttons) ==
    IF peek_ret >= 0 THEN Buttons = BUTTON_COMBO_MASK ELSE TRUE

PressDecision_ReadErrorVetoes(peek_ret, Buttons) ==
    IF peek_ret >= 0
    THEN (Buttons \cap BUTTON_COMBO_MASK) = BUTTON_COMBO_MASK
    ELSE FALSE

\* power switch pressed: allow_sleep after the sample of the override combo
PressDecision(peek_ret, Buttons) ==
    IF peek_ret >= 0
    THEN (Buttons \cap BUTTON_COMBO_MASK) = BUTTON_COMBO_MASK
    ELSE TRUE

BlocksAfterCallback_NoReset(allow, blocks) == blocks

\* if(allow_sleep) { consecutive_sleep_blocks = 0; }
BlocksAfterCallback(allow, blocks) == IF allow THEN 0 ELSE blocks

\* power_callback_handler: the new allow_sleep and consecutive_sleep_blocks
PowerCallbackOutcome(pwrflags, peek_ret, Buttons, blocks) ==
    LET allow == IF "POWER_SWITCH" \in pwrflags
                 THEN PressDecision(peek_ret, Buttons)
                 ELSE TRUE
    IN  [allow_sleep |-> allow, blocks |-> BlocksAfterCallback(allow, blocks)]

killswitchSysEventHandler(ev_id) ==
    LET out == SysEventOutcome(ev_id, allow_sleep, consecutive_sleep_blocks)
        isq == ev_id = SCE_SYSTEM_SUSPEND_EVENT_QUERY
    IN  /\ variant = "push"
        /\ sys_registered
        /\ allow_sleep' = out.allow_sleep
        /\ consecutive_sleep_blocks' = out.blocks
        /\ prev_ev' = ev
        /\ ev' = Event("sysevent", ev_id, out.ret, FALSE, FALSE, FALSE, FALSE,
                       allow_sleep, consecutive_sleep_blocks, denial_run)
        /\ denial_run' = IF ~isq THEN denial_run
                         ELSE IF out.ret = SCE_ERROR_BUSY THEN denial_run + 1 ELSE 0
        /\ fresh_queries' = IF ~isq THEN fresh_queries
                            ELSE IF fresh_queries >= 0 /\ fresh_queries <= MAX_CONSECUTIVE_SLEEPS
                                 THEN fresh_queries + 1
                                 ELSE -1
        /\ query_parity' = IF isq THEN ~query_parity ELSE query_parity
        /\ ceiling_since' = (ceiling_since \/ (isq /\ ~allow_sleep /\ out.ret = SCE_ERROR_OK))
        /\ UNCHANGED <<variant, racevars, lifevars, pollvars, pollhist, last_cb>>

power_callback_handler(pwrflags, peek_ret, Buttons) ==
    LET out == PowerCallbackOutcome(pwrflags, peek_ret, Buttons, consecutive_sleep_blocks)
        switch == "POWER_SWITCH" \in pwrflags
        read_ok == switch /\ peek_ret >= 0
        combo == read_ok /\ BUTTON_COMBO_MASK \subseteq Buttons
    IN  /\ variant = "push"
        /\ th_state = "running" /\ th_pc = "sleep" /\ slot \in held_slots
        /\ allow_sleep' = out.allow_sleep
        /\ consecutive_sleep_blocks' = out.blocks
        /\ prev_ev' = ev
        /\ ev' = Event("power_cb", 0, 0, switch, read_ok, combo, FALSE,
                       allow_sleep, consecutive_sleep_blocks, denial_run)
        /\ denial_run' = 0
        /\ fresh_queries' = IF switch /\ read_ok /\ ~combo /\ allow_sleep THEN 0 ELSE -1
        /\ last_cb' = Event("power_cb", 0, 0, switch, read_ok, combo, FALSE,
                            allow_sleep, consecutive_sleep_blocks, denial_run)
        /\ ceiling_since' = FALSE
        /\ UNCHANGED <<variant, racevars, lifevars, pollvars, pollhist, query_parity>>

----------------------------------------------------------------------------
(* killswitch_hold.c *)

\* One tick of the model's clock is the 50 ms poll delay of main_thread.
TickUsec == 50 * ONE_MSEC

\* sceKernelDelayThread(usec) sleeps for at least usec: the ticks that takes
DelayTicks(usec) == (usec + TickUsec - 1) \div TickUsec

SettleTicks == DelayTicks(DISABLE_DURATION)

SettleDelay_PollInterval == 50 * ONE_MSEC

\* sceKernelDelayThread(DISABLE_DURATION) on hold activated -> deactivated
SettleDelay == DISABLE_DURATION

\* Sleep 50ms before next poll
PollDelay == 50 * ONE_MSEC

\* suspend_event_handler: the value returned
SuspendEventRet(ev_id, allowed) ==
    IF ev_id = 256 THEN (IF allowed THEN 0 ELSE -1) ELSE 0

\* One pass of main_thread's loop body up to its next sceKernelDelayThread:
\* the new sleep_allowed, the delay it enters and for how long
MainThreadPollOutcome(peek_ret, Buttons, allowed) ==
    IF peek_ret >= 0
    THEN IF (Buttons \cap PSP_CTRL_HOLD) = PSP_CTRL_HOLD
         THEN [sleep_allowed |-> FALSE, pc |-> "sleep", usec |-> PollDelay]
         ELSE IF ~allowed
              THEN [sleep_allowed |-> allowed, pc |-> "settle", usec |-> SettleDelay]
              ELSE [sleep_allowed |-> allowed, pc |-> "sleep", usec |-> PollDelay]
    ELSE [sleep_allowed |-> TRUE, pc |-> "sleep", usec |-> PollDelay]

suspend_event_handler(ev_id) ==
    LET ret == SuspendEventRet(ev_id, sleep_allowed)
        isq == ev_id = SCE_SYSTEM_SUSPEND_EVENT_QUERY
    IN  /\ variant = "poll"
        /\ events_registered
        /\ prev_ev' = ev
        /\ ev' = Event("sysevent", ev_id, ret, FALSE, FALSE, FALSE, hold_engaged,
                       sleep_allowed, 0, 0)
        /\ rets_since_release' = IF isq THEN rets_since_release \cup {ret}
                                 ELSE rets_since_release
        /\ query_parity' = IF isq THEN ~query_parity ELSE query_parity
        /\ UNCHANGED <<variant, racevars, lifevars, pushvars, pollvars, pushhist,
                       since_release, seen_engaged, last_sample>>

\* while(run) { sample; decide; ... } up to the delay the pass ends in
main_thread_poll(peek_ret, Buttons) ==
    LET out == MainThreadPollOutcome(peek_ret, Buttons, sleep_allowed)
        read_ok == peek_ret >= 0
        sample == IF ~read_ok THEN "failed"
                  ELSE IF hold_engaged THEN "engaged" ELSE "disengaged"
        released == last_sample = "engaged" /\ sample = "disengaged"
    IN  /\ variant = "poll"
        /\ main_pc = "poll"
        /\ run
        /\ ("HOLD" \in Buttons) = hold_engaged
        /\ sleep_allowed' = out.sleep_allowed
        /\ main_pc' = out.pc
        /\ delay_left' = DelayTicks(out.usec)
        /\ prev_ev' = ev
        /\ ev' = Event("sample", 0, 0, FALSE, read_ok, FALSE, read_ok /\ hold_engaged,
                       sleep_allowed, 0, 0)
        /\ last_sample' = sample
        /\ seen_engaged' = (seen_engaged \/ sample = "engaged")
        /\ since_release' = IF released THEN 0 ELSE since_release
        /\ rets_since_release' = IF released THEN {} ELSE rets_since_release
        /\ UNCHANGED <<variant, racevars, lifevars, pushvars, run, events_registered, hold_engaged,
                       pushhist, query_parity>>

\* sceKernelDelayThread(DISABLE_DURATION) returns; sleep_allowed = true;
\* then the thread enters the 50 ms delay
main_thread_settle_end ==
    /\ variant = "poll"
    /\ main_pc = "settle"
    /\ delay_left = 0
    /\ sleep_allowed' = TRUE
    /\ main_pc' = "sleep"
    /\ delay_left' = DelayTicks(PollDelay)
    /\ prev_ev' = ev
    /\ ev' = Event("settle_end", 0, 0, FALSE, FALSE, FALSE, hold_engaged,
                   sleep_allowed, 0, 0)
    /\ UNCHANGED <<variant, racevars, lifevars, pushvars, run, events_registered, hold_engaged,
                   pushhist, pollhist, query_parity>>

\* sceKernelDelayThread(50 * ONE_MSEC) returns: back to while(run)
main_thread_wake ==
    /\ variant = "poll"
    /\ main_pc = "sleep"
    /\ delay_left = 0
    /\ main_pc' = "poll"
    /\ UNCHANGED <<variant, racevars, lifevars, pushvars, sleep_allowed, run, events_registered, delay_left,
                   hold_engaged, ev, prev_ev, pushhist, pollhist, query_parity>>

\* while(run) is false: return 0
main_thread_exit ==
    /\ variant = "poll"
    /\ main_pc = "poll"
    /\ ~run
    /\ main_pc' = "exited"
    /\ UNCHANGED <<variant, racevars, lifevars, pushvars, sleep_allowed, run, events_registered, delay_left,
                   hold_engaged, ev, prev_ev, pushhist, pollhist, query_parity>>

\* module_start of killswitch_hold.c: result = register_suspend_handler()
hold_module_start_register(register_ret) ==
    /\ variant = "poll"
    /\ loader_pc = "start"
    /\ result' = register_ret
    /\ IF register_ret >= 0
       THEN /\ events_registered' = TRUE
            /\ loader_pc' = "start_thread"
            /\ UNCHANGED <<start_ret, reg_failures>>
       ELSE /\ start_ret' = {register_ret}
            /\ reg_failures' = reg_failures \cup {"sysevent"}
            /\ loader_pc' = "start_failed"
            /\ UNCHANGED events_registered
    /\ UNCHANGED <<variant, racevars, pushvars, sleep_allowed, run, main_pc, delay_left, hold_engaged,
                   ev, prev_ev, pushhist, pollhist, query_parity, stop_ret, stop_steps,
                   callback_thid, sys_registered, workervars>>

\* module_start of killswitch_hold.c: create and start main_thread, return result
hold_module_start_thread(thid) ==
    /\ variant = "poll"
    /\ loader_pc = "start_thread"
    /\ IF thid >= 0
       THEN run' = TRUE /\ main_pc' = "poll"
       ELSE UNCHANGED <<run, main_pc>>
    /\ start_ret' = {result}
    /\ loader_pc' = "loaded"
    /\ UNCHANGED <<variant, racevars, pushvars, sleep_allowed, events_registered, delay_left,
                   hold_engaged, ev, prev_ev, pushhist, pollhist, query_parity, stop_ret,
                   result, stop_steps, reg_failures, callback_thid, sys_registered,
                   workervars>>

\* module_stop of killswitch_hold.c: result = unregister_suspend_handler()
hold_module_stop(unregister_ret) ==
    /\ variant = "poll"
    /\ loader_pc = "loaded"
    /\ result' = unregister_ret
    /\ events_registered' = (IF unregister_ret >= 0 THEN FALSE ELSE events_registered)
    /\ stop_steps' = Append(stop_steps, IF unregister_ret >= 0 THEN "unregister"
                                        ELSE "unregister_failed")
    /\ loader_pc' = "stop_run"
    /\ UNCHANGED <<variant, racevars, pushvars, sleep_allowed, run, main_pc, delay_left, hold_engaged,
                   ev, prev_ev, pushhist, pollhist, query_parity, start_ret, stop_ret,
                   reg_failures, callback_thid, sys_registered, workervars>>

\* module_stop of killswitch_hold.c: run = false; return result
hold_module_stop_run ==
    /\ variant = "poll"
    /\ loader_pc = "stop_run"
    /\ run' = FALSE
    /\ stop_steps' = Append(stop_steps, "signal")
    /\ stop_ret' = {result}
    /\ loader_pc' = "stopped"
    /\ UNCHANGED <<variant, racevars, pushvars, sleep_allowed, events_registered, main_pc, delay_left,
                   hold_engaged, ev, prev_ev, pushhist, pollhist, query_parity, start_ret,
                   result, reg_failures, callback_thid, sys_registered, workervars>>

----------------------------------------------------------------------------
(* Environment *)

\* 50 ms pass
Tick ==
    /\ variant = "poll"
    /\ delay_left' = IF delay_left > 0 THEN delay_left - 1 ELSE 0
    /\ since_release' = IF since_release < SettleTicks THEN since_release + 1 ELSE since_release
    /\ UNCHANGED <<variant, racevars, lifevars, pushvars, sleep_allowed, run, events_registered, main_pc,
                   hold_engaged, ev, prev_ev, pushhist, rets_since_release, seen_engaged,
                   last_sample, query_parity>>

\* the user moves the hold switch
HoldToggle ==
    /\ variant = "poll"
    /\ hold_engaged' = ~hold_engaged
    /\ UNCHANGED <<variant, racevars, lifevars, pushvars, sleep_allowed, run, events_registered, main_pc,
                   delay_left, ev, prev_ev, pushhist, pollhist, query_parity>>

----------------------------------------------------------------------------
(* killswitch.c: module_start, callback_thread, module_stop, one kernel    *)
(* call per step.  A kernel call that can fail takes its return value as   *)
(* an input.                                                               *)

MODULE_OK == 0
MODULE_ERROR == 1

\* the only thread id sceKernelCreateThread hands out here
WorkerThid == 1

CreateRets == {-1, WorkerThid}
KernelRets == {-1, 0}

\* for(slot = 15; ...
FirstSlot == 15

ProbeOutcome_NoBreak(s, ret) ==
    IF s - 1 >= 0 THEN [slot |-> s - 1, pc |-> "probe"]
    ELSE [slot |-> s, pc |-> IF ret >= 0 THEN "sleep" ELSE "delete_cb"]

\* for(...; slot >= 0; slot--) { reg_callback_ret = scePowerRegisterCallback(slot, cbid);
\*   if(reg_callback_ret >= 0) break; }  if(reg_callback_ret >= 0 && slot >= 0) ... else ...
\* One pass of the loop for slot s: the slot the loop goes on with and where
\* the thread is next.
ProbeOutcome(s, ret) ==
    IF ret >= 0 THEN [slot |-> s, pc |-> "sleep"]
    ELSE IF s - 1 >= 0 THEN [slot |-> s - 1, pc |-> "probe"]
    ELSE [slot |-> s - 1, pc |-> "delete_cb"]

AfterUnregister_IgnoresFailure(unregister_ret) == "stop_callbacks"

\* module_stop: if(result < 0) return MODULE_ERROR; else stop_callbacks()
AfterUnregister(unregister_ret) ==
    IF unregister_ret < 0 THEN "stopped" ELSE "stop_callbacks"

AfterWait_AlwaysTerminate(wait_ret) == "stop_terminate"

\* stop_callbacks: the branch taken on the result of sceKernelWaitThreadEnd
AfterWait(wait_ret) ==
    IF wait_ret < 0 THEN "stop_terminate" ELSE "stop_delete"

\* module_start / module_stop: MODULE_ERROR for a negative result, else MODULE_OK
ModuleRet(res) == IF res < 0 THEN MODULE_ERROR ELSE MODULE_OK

\* start_callbacks: result = sceKernelCreateThread(...); if(result >= 0) callback_thid = result
module_start_create_thread(create_ret) ==
    /\ variant = "push"
    /\ loader_pc = "start"
    /\ IF create_ret >= 0
       THEN /\ callback_thid' = create_ret
            /\ th_state' = "dormant"
            /\ loader_pc' = "start_thread"
            /\ UNCHANGED start_ret
       ELSE /\ start_ret' = {ModuleRet(create_ret)}
            /\ loader_pc' = "start_failed"
            /\ UNCHANGED <<callback_thid, th_state>>
    /\ UNCHANGED <<variant, racevars, pushvars, pollvars, ev, prev_ev, pushhist, pollhist,
                   query_parity, stop_ret, result, stop_steps, reg_failures,
                   sys_registered, th_pc, cb_state, slot, reg_callback_ret, held_slots,
                   wakeups, tried, unreg_slot>>

\* start_callbacks: result = sceKernelStartThread(result, 0, 0); module_start
\* returns MODULE_ERROR when it failed
module_start_start_thread(start_thread_ret) ==
    /\ variant = "push"
    /\ loader_pc = "start_thread"
    /\ IF start_thread_ret >= 0
       THEN /\ th_state' = "running"
            /\ th_pc' = "create_cb"
            /\ loader_pc' = "register"
            /\ UNCHANGED start_ret
       ELSE /\ start_ret' = {ModuleRet(start_thread_ret)}
            /\ loader_pc' = "start_failed"
            /\ UNCHANGED <<th_state, th_pc>>
    /\ UNCHANGED <<variant, racevars, pushvars, pollvars, ev, prev_ev, pushhist, pollhist,
                   query_parity, stop_ret, result, stop_steps, reg_failures,
                   callback_thid, sys_registered, cb_state, slot, reg_callback_ret,
                   held_slots, wakeups, tried, unreg_slot>>

\* module_start: result = register_suspend_handler(); return
module_start_register(register_ret) ==
    /\ variant = "push"
    /\ loader_pc = "register"
    /\ start_ret' = {ModuleRet(register_ret)}
    /\ IF register_ret >= 0
       THEN /\ sys_registered' = TRUE
            /\ loader_pc' = "loaded"
            /\ UNCHANGED reg_failures
       ELSE /\ reg_failures' = reg_failures \cup {"sysevent"}
            /\ loader_pc' = "start_failed"
            /\ UNCHANGED sys_registered
    /\ UNCHANGED <<variant, racevars, pushvars, pollvars, ev, prev_ev, pushhist, pollhist,
                   query_parity, stop_ret, result, stop_steps, callback_thid, workervars>>

\* callback_thread: cbid = sceKernelCreateCallback(...); if(cbid < 0) return cbid
callback_thread_create(cbid) ==
    /\ variant = "push"
    /\ th_state = "running"
    /\ th_pc = "create_cb"
    /\ IF cbid >= 0
       THEN /\ cb_state' = "created"
            /\ slot' = FirstSlot
            /\ th_pc' = "probe"
            /\ UNCHANGED <<th_state, reg_failures>>
       ELSE /\ reg_failures' = reg_failures \cup {"callback_create"}
            /\ th_state' = "exited"
            /\ th_pc' = "done"
            /\ UNCHANGED <<cb_state, slot>>
    /\ UNCHANGED <<variant, racevars, pushvars, pollvars, ev, prev_ev, pushhist, pollhist,
                   query_parity, loader_pc, start_ret, stop_ret, result, stop_steps,
                   callback_thid, sys_registered, reg_callback_ret, held_slots, wakeups,
                   tried, unreg_slot>>

\* callback_thread: one pass of the slot loop
callback_thread_probe(register_ret) ==
    LET out == ProbeOutcome(slot, register_ret)
    IN  /\ variant = "push"
        /\ th_state = "running"
        /\ th_pc = "probe"
        /\ reg_callback_ret' = register_ret
        /\ tried' = Append(tried, slot)
        /\ held_slots' = IF register_ret >= 0 THEN held_slots \cup {slot} ELSE held_slots
        /\ slot' = out.slot
        /\ th_pc' = out.pc
        /\ reg_failures' = IF out.pc = "delete_cb"
                           THEN reg_failures \cup {"callback_slots"} ELSE reg_failures
        /\ UNCHANGED <<variant, racevars, pushvars, pollvars, ev, prev_ev, pushhist, pollhist,
                       query_parity, loader_pc, start_ret, stop_ret, result, stop_steps,
                       callback_thid, sys_registered, th_state, cb_state, wakeups,
                       unreg_slot>>

\* callback_thread: sceKernelSleepThreadCB() returns once a wakeup is pending
callback_thread_wakeup ==
    /\ variant = "push"
    /\ th_state = "running"
    /\ th_pc = "sleep"
    /\ wakeups > 0
    /\ wakeups' = wakeups - 1
    /\ th_pc' = "unregister"
    /\ UNCHANGED <<variant, racevars, pushvars, pollvars, ev, prev_ev, pushhist, pollhist,
                   query_parity, loadervars, callback_thid, sys_registered, th_state,
                   cb_state, slot, reg_callback_ret, held_slots, tried, unreg_slot>>

\* callback_thread: reg_callback_ret = scePowerUnregisterCallback(slot)
callback_thread_unregister(unregister_ret) ==
    /\ variant = "push"
    /\ th_state = "running"
    /\ th_pc = "unregister"
    /\ reg_callback_ret' = unregister_ret
    /\ unreg_slot' = unreg_slot \cup {slot}
    /\ held_slots' = IF unregister_ret >= 0 THEN held_slots \ {slot} ELSE held_slots
    /\ th_pc' = "delete_cb"
    /\ UNCHANGED <<variant, racevars, pushvars, pollvars, ev, prev_ev, pushhist, pollhist,
                   query_parity, loadervars, callback_thid, sys_registered, th_state,
                   cb_state, slot, wakeups, tried>>

\* callback_thread: delete_ret = sceKernelDeleteCallback(cbid) (a failure is
\* only logged); return 0
callback_thread_delete(delete_ret) ==
    /\ variant = "push"
    /\ th_state = "running"
    /\ th_pc = "delete_cb"
    /\ cb_state' = IF delete_ret >= 0 THEN "deleted" ELSE "delete_failed"
    /\ th_state' = "exited"
    /\ th_pc' = "done"
    /\ UNCHANGED <<variant, racevars, pushvars, pollvars, ev, prev_ev, pushhist, pollhist,
                   query_parity, loadervars, callback_thid, sys_registered, slot,
                   reg_callback_ret, held_slots, wakeups, tried, unreg_slot>>

\* module_stop: result = unregister_suspend_handler(); if(result < 0) return MODULE_ERROR
module_stop_unregister(unregister_ret) ==
    LET next == AfterUnregister(unregister_ret)
    IN  /\ variant = "push"
        /\ loader_pc = "loaded"
        /\ sys_registered' = (IF unregister_ret >= 0 THEN FALSE ELSE sys_registered)
        /\ stop_steps' = Append(stop_steps, IF unregister_ret >= 0 THEN "unregister"
                                            ELSE "unregister_failed")
        /\ loader_pc' = next
        /\ stop_ret' = IF next = "stopped" THEN {ModuleRet(unregister_ret)} ELSE stop_ret
        /\ UNCHANGED <<variant, racevars, pushvars, pollvars, ev, prev_ev, pushhist, pollhist,
                       query_parity, start_ret, result, reg_failures, callback_thid,
                       workervars>>

\* stop_callbacks: thid = callback_thid; if(thid >= 0) sceKernelWakeupThread(thid)
\* (a failure is only logged); with no thread, return 0
stop_callbacks_wakeup(wakeup_ret) ==
    /\ variant = "push"
    /\ loader_pc = "stop_callbacks"
    /\ IF callback_thid >= 0
       THEN /\ wakeup_ret >= 0 => th_state = "running"
            /\ wakeups' = IF wakeup_ret >= 0 THEN wakeups + 1 ELSE wakeups
            /\ stop_steps' = Append(stop_steps, IF wakeup_ret >= 0 THEN "wake"
                                                ELSE "wake_failed")
            /\ loader_pc' = "stop_wait"
            /\ UNCHANGED stop_ret
       ELSE /\ stop_ret' = {ModuleRet(0)}
            /\ loader_pc' = "stopped"
            /\ UNCHANGED <<wakeups, stop_steps>>
    /\ UNCHANGED <<variant, racevars, pushvars, pollvars, ev, prev_ev, pushhist, pollhist,
                   query_parity, start_ret, result, reg_failures, callback_thid,
                   sys_registered, th_state, th_pc, cb_state, slot, reg_callback_ret,
                   held_slots, tried, unreg_slot>>

\* stop_callbacks: sceKernelWaitThreadEnd(thid, NULL) returns because the
\* thread has ended
stop_callbacks_wait_end ==
    /\ variant = "push"
    /\ loader_pc = "stop_wait"
    /\ th_state = "exited"
    /\ stop_steps' = Append(stop_steps, "wait")
    /\ loader_pc' = AfterWait(0)
    /\ UNCHANGED <<variant, racevars, pushvars, pollvars, ev, prev_ev, pushhist, pollhist,
                   query_parity, start_ret, stop_ret, result, reg_failures, callback_thid,
                   sys_registered, workervars>>

\* stop_callbacks: sceKernelWaitThreadEnd(thid, NULL) returns an error
stop_callbacks_wait_error ==
    /\ variant = "push"
    /\ loader_pc = "stop_wait"
    /\ stop_steps' = Append(stop_steps, "wait_failed")
    /\ loader_pc' = AfterWait(-1)
    /\ UNCHANGED <<variant, racevars, pushvars, pollvars, ev, prev_ev, pushhist, pollhist,
                   query_parity, start_ret, stop_ret, result, reg_failures, callback_thid,
                   sys_registered, workervars>>

\* stop_callbacks: result = sceKernelTerminateDeleteThread(thid);
\* if(result >= 0) callback_thid = -1;  module_stop returns
stop_callbacks_terminate(terminate_ret) ==
    /\ variant = "push"
    /\ loader_pc = "stop_terminate"
    /\ stop_steps' = Append(stop_steps, "terminate")
    /\ IF terminate_ret >= 0
       THEN th_state' = "deleted" /\ callback_thid' = -1
       ELSE UNCHANGED <<th_state, callback_thid>>
    /\ stop_ret' = {ModuleRet(terminate_ret)}
    /\ loader_pc' = "stopped"
    /\ UNCHANGED <<variant, racevars, pushvars, pollvars, ev, prev_ev, pushhist, pollhist,
                   query_parity, start_ret, result, reg_failures, sys_registered, th_pc,
                   cb_state, slot, reg_callback_ret, held_slots, wakeups, tried,
                   unreg_slot>>

\* stop_callbacks: result = sceKernelDeleteThread(thid);
\* if(result >= 0) callback_thid = -1;  module_stop returns
stop_callbacks_delete(delete_ret) ==
    /\ variant = "push"
    /\ loader_pc = "stop_delete"
    /\ stop_steps' = Append(stop_steps, "delete")
    /\ IF delete_ret >= 0
       THEN th_state' = "deleted" /\ callback_thid' = -1
       ELSE UNCHANGED <<th_state, callback_thid>>
    /\ stop_ret' = {ModuleRet(delete_ret)}
    /\ loader_pc' = "stopped"
    /\ UNCHANGED <<variant, racevars, pushvars, pollvars, ev, prev_ev, pushhist, pollhist,
                   query_parity, start_ret, result, reg_failures, sys_registered, th_pc,
                   cb_state, slot, reg_callback_ret, held_slots, wakeups, tried,
                   unreg_slot>>

----------------------------------------------------------------------------
(* killswitch.c: the two handlers one statement per step.  The suspend      *)
(* sequencer runs killswitchSysEventHandler, the callback thread runs       *)
(* power_callback_handler; either can be preempted between two statements.  *)

\* if(ev_id == SCE_SYSTEM_SUSPEND_EVENT_QUERY && !allow_sleep): a query arrives
\* and the handler reads allow_sleep
sys_handler_test ==
    /\ variant = "push"
    /\ sys_registered
    /\ sys_pc = "idle"
    /\ sys_pc' = IF ~allow_sleep THEN "ceiling_test" ELSE "idle"
    /\ UNCHANGED <<variant, pushvars, pollvars, ev, prev_ev, pushhist, pollhist,
                   query_parity, lifevars, cb_pc>>

\* if(consecutive_sleep_blocks < MAX_CONSECUTIVE_SLEEPS)
sys_handler_ceiling_test ==
    /\ variant = "push"
    /\ sys_pc = "ceiling_test"
    /\ sys_pc' = IF BelowCeiling(consecutive_sleep_blocks) THEN "block" ELSE "allow"
    /\ UNCHANGED <<variant, pushvars, pollvars, ev, prev_ev, pushhist, pollhist,
                   query_parity, lifevars, cb_pc>>

\* consecutive_sleep_blocks++; return SCE_ERROR_BUSY
sys_handler_block ==
    /\ variant = "push"
    /\ sys_pc = "block"
    /\ consecutive_sleep_blocks' = consecutive_sleep_blocks + 1
    /\ sys_pc' = "idle"
    /\ UNCHANGED <<variant, allow_sleep, pollvars, ev, prev_ev, pushhist, pollhist,
                   query_parity, lifevars, cb_pc>>

\* allow_sleep = true; return SCE_ERROR_OK
sys_handler_allow ==
    /\ variant = "push"
    /\ sys_pc = "allow"
    /\ allow_sleep' = TRUE
    /\ sys_pc' = "idle"
    /\ UNCHANGED <<variant, consecutive_sleep_blocks, pollvars, ev, prev_ev, pushhist,
                   pollhist, query_parity, lifevars, cb_pc>>

\* the if / else tree that ends in one of the four writes of allow_sleep
cb_handler_decide(pwrflags, peek_ret, Buttons) ==
    /\ variant = "push"
    /\ th_state = "running" /\ th_pc = "sleep" /\ slot \in held_slots
    /\ cb_pc = "idle"
    /\ allow_sleep' = PowerCallbackOutcome(pwrflags, peek_ret, Buttons,
                                           consecutive_sleep_blocks).allow_sleep
    /\ cb_pc' = "reset_test"
    /\ UNCHANGED <<variant, consecutive_sleep_blocks, pollvars, ev, prev_ev, pushhist,
                   pollhist, query_parity, lifevars, sys_pc>>

\* if(allow_sleep)
cb_handler_reset_test ==
    /\ variant = "push"
    /\ cb_pc = "reset_test"
    /\ cb_pc' = IF allow_sleep THEN "reset" ELSE "idle"
    /\ UNCHANGED <<variant, pushvars, pollvars, ev, prev_ev, pushhist, pollhist,
                   query_parity, lifevars, sys_pc>>

\* consecutive_sleep_blocks = 0; return 0
cb_handler_reset ==
    /\ variant = "push"
    /\ cb_pc = "reset"
    /\ consecutive_sleep_blocks' = 0
    /\ cb_pc' = "idle"
    /\ UNCHANGED <<variant, allow_sleep, pollvars, ev, prev_ev, pushhist, pollhist,
                   query_parity, lifevars, sys_pc>>

----------------------------------------------------------------------------
(* Inputs bound *)

PushSysEvent == \E e \in DeliveredEventIds : killswitchSysEventHandler(e)

PowerCallback ==
    \E f \in PowerFlags, r \in PeekRets, b \in ButtonWords : power_callback_handler(f, r, b)

PollSysEvent == \E e \in DeliveredEventIds : suspend_event_handler(e)

MainThreadPoll == \E r \in PeekRets, b \in ButtonWords : main_thread_poll(r, b)

HoldModuleStop == \E r \in KernelRets : hold_module_stop(r)

HoldModuleStart ==
    \/ \E r \in KernelRets : hold_module_start_register(r)
    \/ \E t \in CreateRets : hold_module_start_thread(t)

ModuleStart ==
    \/ \E t \in CreateRets : module_start_create_thread(t)
    \/ \E r \in KernelRets : module_start_start_thread(r)
    \/ \E r \in KernelRets : module_start_register(r)

CallbackThread ==
    \/ \E c \in CreateRets : callback_thread_create(c)
    \/ \E r \in KernelRets : callback_thread_probe(r)
    \/ callback_thread_wakeup
    \/ \E r \in KernelRets : callback_thread_unregister(r)
    \/ \E r \in KernelRets : callback_thread_delete(r)

ModuleStop ==
    \/ \E r \in KernelRets : module_stop_unregister(r)
    \/ \E r \in KernelRets : stop_callbacks_wakeup(r)
    \/ stop_callbacks_wait_end
    \/ stop_callbacks_wait_error
    \/ \E r \in KernelRets : stop_callbacks_terminate(r)
    \/ \E r \in KernelRets : stop_callbacks_delete(r)

----------------------------------------------------------------------------
(* Specifications *)

InitialAllowSleep_VetoLatched == FALSE

\* bool allow_sleep = true;
InitialAllowSleep == TRUE

\* bool sleep_allowed = true;
InitialSleepAllowed == TRUE

\* No handler step has run yet
NoHistory ==
    /\ ev = NoEvent
    /\ prev_ev = NoEvent
    /\ denial_run = 0
    /\ fresh_queries = -1
    /\ last_cb = NoEvent
    /\ ceiling_since = FALSE
    /\ since_release = SettleTicks
    /\ rets_since_release = {}
    /\ seen_engaged = FALSE
    /\ last_sample = "none"
    /\ query_parity = FALSE

\* module_start has returned success: the handler is registered and the worker
\* runs (killswitch.c: asleep in sceKernelSleepThreadCB with the first slot)
Loaded ==
    /\ loader_pc = "loaded"
    /\ start_ret = {MODULE_OK}
    /\ stop_ret = {}
    /\ result = 0
    /\ stop_steps = <<>>
    /\ reg_failures = {}
    /\ wakeups = 0
    /\ unreg_slot = {}
    /\ sys_pc = "idle"
    /\ cb_pc = "idle"
    /\ IF variant = "push"
       THEN /\ callback_thid = WorkerThid
            /\ sys_registered = TRUE
            /\ th_state = "running"
            /\ th_pc = "sleep"
            /\ cb_state = "created"
            /\ slot = FirstSlot
            /\ reg_callback_ret = 0
            /\ held_slots = {FirstSlot}
            /\ tried = <<FirstSlot>>
       ELSE /\ callback_thid = -1
            /\ sys_registered = FALSE
            /\ th_state = "none"
            /\ th_pc = "none"
            /\ cb_state = "none"
            /\ slot = 0
            /\ reg_callback_ret = 0
            /\ held_slots = {}
            /\ tried = <<>>

Init ==
    /\ variant \in {"push", "poll"}
    /\ allow_sleep = InitialAllowSleep
    /\ consecutive_sleep_blocks = 0
    /\ sleep_allowed = InitialSleepAllowed
    /\ run = TRUE
    /\ events_registered = TRUE
    /\ main_pc = "poll"
    /\ delay_left = 0
    /\ hold_engaged \in (IF variant = "poll" THEN BOOLEAN ELSE {FALSE})
    /\ ev = NoEvent
    /\ prev_ev = NoEvent
    /\ denial_run = 0
    /\ fresh_queries = -1
    /\ last_cb = NoEvent
    /\ ceiling_since = FALSE
    /\ since_release = SettleTicks
    /\ rets_since_release = {}
    /\ seen_engaged = FALSE
    /\ last_sample = "none"
    /\ query_parity = FALSE
    /\ Loaded

Next ==
    \/ PushSysEvent
    \/ PowerCallback
    \/ PollSysEvent
    \/ MainThreadPoll
    \/ main_thread_settle_end
    \/ main_thread_wake
    \/ main_thread_exit
    \/ HoldModuleStop
    \/ hold_module_stop_run
    \/ Tick
    \/ HoldToggle

Spec == Init /\ [][Next]_vars

\* The kernel timer advances and a ready main_thread is scheduled; the host
\* re-issues SUSPEND_QUERY for as long as a handler is registered.
FairSpec ==
    /\ Spec
    /\ WF_vars(Tick)
    /\ WF_vars(MainThreadPoll)
    /\ WF_vars(main_thread_settle_end)
    /\ WF_vars(main_thread_wake)
    /\ WF_vars(main_thread_exit)
    /\ WF_vars(killswitchSysEventHandler(SCE_SYSTEM_SUSPEND_EVENT_QUERY))
    /\ WF_vars(suspend_event_handler(SCE_SYSTEM_SUSPEND_EVENT_QUERY))
    /\ WF_vars(hold_module_stop_run)

\* The module is loaded: nothing is registered, no thread exists
LifeInit ==
    /\ variant \in {"push", "poll"}
    /\ allow_sleep = InitialAllowSleep
    /\ consecutive_sleep_blocks = 0
    /\ sleep_allowed = InitialSleepAllowed
    /\ run = FALSE
    /\ events_registered = FALSE
    /\ main_pc = "unborn"
    /\ delay_left = 0
    /\ hold_engaged \in (IF variant = "poll" THEN BOOLEAN ELSE {FALSE})
    /\ NoHistory
    /\ loader_pc = "start"
    /\ start_ret = {}
    /\ stop_ret = {}
    /\ result = 0
    /\ stop_steps = <<>>
    /\ reg_failures = {}
    /\ callback_thid = -1
    /\ sys_registered = FALSE
    /\ th_state = "none"
    /\ th_pc = "none"
    /\ cb_state = "none"
    /\ slot = 0
    /\ reg_callback_ret = 0
    /\ held_slots = {}
    /\ wakeups = 0
    /\ tried = <<>>
    /\ unreg_slot = {}
    /\ sys_pc = "idle"
    /\ cb_pc = "idle"

\* the host asks for suspend
LifeSysEvent == killswitchSysEventHandler(SCE_SYSTEM_SUSPEND_EVENT_QUERY)

\* a power event without the power-switch bit
LifePowerCallback == power_callback_handler({}, 1, {})

LifePollSysEvent == suspend_event_handler(SCE_SYSTEM_SUSPEND_EVENT_QUERY)

LifeNext ==
    \/ ModuleStart
    \/ CallbackThread
    \/ ModuleStop
    \/ LifeSysEvent
    \/ LifePowerCallback
    \/ HoldModuleStart
    \/ HoldModuleStop
    \/ hold_module_stop_run
    \/ MainThreadPoll
    \/ main_thread_settle_end
    \/ main_thread_wake
    \/ main_thread_exit
    \/ LifePollSysEvent
    \/ Tick
    \/ HoldToggle

LifeSpec == LifeInit /\ [][LifeNext]_vars

\* killswitch.c is loaded and both handlers are idle
RaceInit == Init /\ variant = "push"

RaceCallback ==
    \E f \in PowerFlags, r \in PeekRets, b \in ButtonWords : cb_handler_decide(f, r, b)

RaceNext ==
    \/ sys_handler_test
    \/ sys_handler_ceiling_test
    \/ sys_handler_block
    \/ sys_handler_allow
    \/ RaceCallback
    \/ cb_handler_reset_test
    \/ cb_handler_reset

RaceSpec == RaceInit /\ [][RaceNext]_vars

----------------------------------------------------------------------------
(* Properties of the push variant *)

IsPowerCallback(e) == e.kind = "power_cb"
IsRelease(e) == IsPowerCallback(e) /\ ~e.switch
IsComboPress(e) == IsPowerCallback(e) /\ e.switch /\ e.read_ok /\ e.combo
IsFailedPress(e) == IsPowerCallback(e) /\ e.switch /\ ~e.read_ok

\* C1: a run of SUSPEND_QUERYs with no power callback between never holds more
\* than MAX_CONSECUTIVE_SLEEPS answers of SCE_ERROR_BUSY: the query that follows
\* MAX_CONSECUTIVE_SLEEPS of them in a row returns SCE_ERROR_OK and leaves
\* allow_sleep true.
C1_CeilingEndsDenialRun ==
    variant = "push" =>
        /\ denial_run <= MAX_CONSECUTIVE_SLEEPS
        /\ (IsQuery(ev) /\ ev.run_before = MAX_CONSECUTIVE_SLEEPS) =>
               (ev.ret = SCE_ERROR_OK /\ allow_sleep)

C1_Witness ==
    /\ variant = "push"
    /\ IsQuery(ev)
    /\ ev.run_before = MAX_CONSECUTIVE_SLEEPS
    /\ ~ev.allow_before
    /\ ev.ret = SCE_ERROR_OK
    /\ allow_sleep

\* C2: every SUSPEND_QUERY answered SCE_ERROR_OK leaves consecutive_sleep_blocks
\* at 0, and whenever allow_sleep is true consecutive_sleep_blocks is 0.
C2_AllowLeavesNoDenials ==
    variant = "push" =>
        /\ (IsQuery(ev) /\ ev.ret = SCE_ERROR_OK) => consecutive_sleep_blocks = 0
        /\ allow_sleep => consecutive_sleep_blocks = 0

\* C3: after a press without the combo that turns the veto on, the k-th query
\* that follows (no power callback between) is answered SCE_ERROR_BUSY with
\* consecutive_sleep_blocks = k for k = 1..MAX_CONSECUTIVE_SLEEPS, and the one
\* after those is answered SCE_ERROR_OK.
C3_FreshPressDeniesMaxTimes ==
    (variant = "push" /\ IsQuery(ev)) =>
        /\ fresh_queries \in 1..MAX_CONSECUTIVE_SLEEPS =>
               (ev.ret = SCE_ERROR_BUSY /\ consecutive_sleep_blocks = fresh_queries)
        /\ fresh_queries = MAX_CONSECUTIVE_SLEEPS + 1 => ev.ret = SCE_ERROR_OK

\* C4: a power callback without the power-switch flag leaves allow_sleep true
\* and consecutive_sleep_blocks 0, and a SUSPEND_QUERY delivered next returns
\* SCE_ERROR_OK with consecutive_sleep_blocks still 0.
C4_ReleaseAllows ==
    variant = "push" =>
        /\ IsRelease(ev) => (allow_sleep /\ consecutive_sleep_blocks = 0)
        /\ (IsRelease(prev_ev) /\ IsQuery(ev)) =>
               (ev.ret = SCE_ERROR_OK /\ allow_sleep /\ consecutive_sleep_blocks = 0)

C4_Witness ==
    /\ variant = "push"
    /\ IsRelease(prev_ev)
    /\ ~prev_ev.allow_before
    /\ prev_ev.blocks_before > 0
    /\ IsQuery(ev)
    /\ ev.ret = SCE_ERROR_OK
    /\ consecutive_sleep_blocks = 0

\* C5: a press callback whose sample shows the whole override combo held leaves
\* allow_sleep true, and the SUSPEND_QUERY delivered next returns SCE_ERROR_OK
\* with consecutive_sleep_blocks 0.
C5_ComboPressAllows ==
    variant = "push" =>
        /\ IsComboPress(ev) => allow_sleep
        /\ (IsComboPress(prev_ev) /\ IsQuery(ev)) =>
               (ev.ret = SCE_ERROR_OK /\ consecutive_sleep_blocks = 0)

C5_Witness ==
    /\ variant = "push"
    /\ IsComboPress(prev_ev)
    /\ ~prev_ev.allow_before
    /\ prev_ev.blocks_before > 0
    /\ IsQuery(ev)
    /\ ev.ret = SCE_ERROR_OK
    /\ consecutive_sleep_blocks = 0

\* C7: consecutive_sleep_blocks stays within 0..MAX_CONSECUTIVE_SLEEPS, and a
\* SUSPEND_QUERY answered SCE_ERROR_BUSY raises it by exactly 1 and leaves
\* allow_sleep as it was.
C7_CounterBounded ==
    variant = "push" =>
        /\ consecutive_sleep_blocks \in 0..MAX_CONSECUTIVE_SLEEPS
        /\ (IsQuery(ev) /\ ev.ret = SCE_ERROR_BUSY) =>
               /\ consecutive_sleep_blocks = ev.blocks_before + 1
               /\ allow_sleep = ev.allow_before

C7_Witness ==
    /\ variant = "push"
    /\ IsQuery(ev)
    /\ ev.ret = SCE_ERROR_BUSY
    /\ ev.blocks_before = MAX_CONSECUTIVE_SLEEPS - 1
    /\ consecutive_sleep_blocks = MAX_CONSECUTIVE_SLEEPS

----------------------------------------------------------------------------
(* Properties of the poll variant, and of both *)

IsSample(e) == e.kind = "sample"
IsFailedSample(e) == IsSample(e) /\ ~e.read_ok

\* C6: a failed sceCtrlPeekBufferPositive never produces or keeps a veto.  Push:
\* a press callback whose read fails leaves allow_sleep true.  Poll: a failed
\* read in main_thread leaves sleep_allowed true, whatever it was.  In both the
\* SUSPEND_QUERY delivered next is allowed.
C6_ReadFailureAllows ==
    /\ variant = "push" =>
           /\ IsFailedPress(ev) => allow_sleep
           /\ (IsFailedPress(prev_ev) /\ IsQuery(ev)) => ev.ret = SCE_ERROR_OK
    /\ variant = "poll" =>
           /\ IsFailedSample(ev) => sleep_allowed
           /\ (IsFailedSample(prev_ev) /\ IsQuery(ev)) => ev.ret = 0

C6_Witness ==
    /\ variant = "poll"
    /\ IsFailedSample(prev_ev)
    /\ ~prev_ev.allow_before
    /\ seen_engaged
    /\ hold_engaged
    /\ IsQuery(ev)
    /\ ev.ret = 0

QueryDenied == IsQuery(ev) /\ ev.ret < 0
QueryAllowed == IsQuery(ev) /\ ev.ret >= 0

\* C8: a host that keeps re-issuing SUSPEND_QUERY is eventually allowed, in
\* either variant and whatever the physical inputs do: a denied query is
\* followed by an allowed one, unless a new power callback starts a new suspend
\* attempt (push), or the hold switch is let go or the module is being stopped
\* (poll): in particular the queries are not denied for ever while the hold
\* switch stays engaged.
C8_HostEventuallyAllowed ==
    QueryDenied ~>
        \/ QueryAllowed
        \/ (variant = "push" /\ IsPowerCallback(ev))
        \/ (variant = "poll" /\ (~hold_engaged \/ ~events_registered \/ ~run))

\* C9: from the moment main_thread samples hold disengaged right after sampling
\* it engaged, no SUSPEND_QUERY is allowed before DISABLE_DURATION has passed,
\* and afterwards, unless hold is engaged again, a SUSPEND_QUERY is allowed.
C9_SettleDeniesThenAllows ==
    /\ [](since_release < SettleTicks => (~sleep_allowed /\ 0 \notin rets_since_release))
    /\ (since_release < SettleTicks) ~>
           (0 \in rets_since_release \/ hold_engaged \/ ~events_registered)

C9_Witness ==
    /\ variant = "poll"
    /\ last_sample = "disengaged"
    /\ ~hold_engaged
    /\ since_release = SettleTicks
    /\ rets_since_release = {-1, 0}
    /\ IsQuery(ev)
    /\ ev.ret = 0

\* C10: once main_thread has sampled hold engaged, no SUSPEND_QUERY is allowed
\* at a moment when hold is physically engaged and the reads succeed; stated
\* for the case the claim singles out: hold was engaged again when the settle
\* delay ended, and is engaged at the query that comes next.
C10_NoAllowWhileHoldEngaged ==
    (/\ variant = "poll"
     /\ IsQuery(ev) /\ ev.hold
     /\ seen_engaged /\ last_sample # "failed"
     /\ prev_ev.kind = "settle_end" /\ prev_ev.hold)
        => ev.ret < 0

----------------------------------------------------------------------------
(* Defaults, frame of the other suspend events, origin of the veto *)

IsOtherSysEvent(e) == e.kind = "sysevent" /\ e.id # SCE_SYSTEM_SUSPEND_EVENT_QUERY

\* C17 as claimed: before any switch event has been observed the push variant
\* starts with the veto on (allow_sleep false), the poll variant with it off,
\* and consecutive_sleep_blocks is 0.
C17_DefaultVetoLatchedInPush ==
    /\ (variant = "push" /\ last_cb = NoEvent) =>
           (~allow_sleep /\ consecutive_sleep_blocks = 0)
    /\ (variant = "poll" /\ last_sample = "none") => sleep_allowed

\* C17 as amended: before any switch event has been observed the veto is off in
\* both variants (allow_sleep, sleep_allowed true) and consecutive_sleep_blocks
\* is 0; a SUSPEND_QUERY delivered then is allowed.
C17_DefaultAllowsInBoth ==
    /\ (variant = "push" /\ last_cb = NoEvent) =>
           /\ allow_sleep
           /\ consecutive_sleep_blocks = 0
           /\ IsQuery(ev) => ev.ret = SCE_ERROR_OK
    /\ (variant = "poll" /\ last_sample = "none") =>
           /\ sleep_allowed
           /\ IsQuery(ev) => ev.ret = 0

C17_Witness ==
    /\ variant = "push"
    /\ last_cb = NoEvent
    /\ IsQuery(ev)
    /\ ev.ret = SCE_ERROR_OK
    /\ allow_sleep
    /\ consecutive_sleep_blocks = 0

\* C18: a suspend-class event other than SUSPEND_QUERY returns the accept status
\* and leaves the veto flag and the counter as they were, in both variants; an
\* event answered with the veto status is a SUSPEND_QUERY.
C18_OtherEventsAcceptedUnchanged ==
    /\ (variant = "push" /\ IsOtherSysEvent(ev)) =>
           /\ ev.ret = SCE_ERROR_OK
           /\ allow_sleep = ev.allow_before
           /\ consecutive_sleep_blocks = ev.blocks_before
    /\ (variant = "poll" /\ IsOtherSysEvent(ev)) =>
           /\ ev.ret = 0
           /\ sleep_allowed = ev.allow_before
    /\ (ev.kind = "sysevent" /\ ev.ret # 0) => IsQuery(ev)

C18_Witness ==
    /\ variant = "push"
    /\ ev.kind = "sysevent"
    /\ ev.id = SCE_SYSTEM_SUSPEND_EVENT_CANCELLATION
    /\ ~ev.allow_before
    /\ ev.blocks_before = MAX_CONSECUTIVE_SLEEPS
    /\ ev.ret = SCE_ERROR_OK
    /\ ~allow_sleep
    /\ IsQuery(prev_ev)
    /\ prev_ev.ret = SCE_ERROR_BUSY

\* C20: the veto is on only if the last power callback reported the power
\* switch pressed, its read succeeded and showed the combo not held, and the
\* ceiling has not fired since; no suspend event turns the veto on.
C20_VetoOnlyFromPlainPress ==
    variant = "push" =>
        /\ ~allow_sleep =>
               /\ IsPowerCallback(last_cb)
               /\ last_cb.switch /\ last_cb.read_ok /\ ~last_cb.combo
               /\ ~ceiling_since
        /\ (ev.kind = "sysevent" /\ ev.allow_before) => allow_sleep

C20_Witness ==
    /\ variant = "push"
    /\ ~allow_sleep
    /\ IsQuery(ev)
    /\ ev.ret = SCE_ERROR_BUSY
    /\ IsPowerCallback(last_cb)
    /\ last_cb.switch /\ last_cb.read_ok /\ ~last_cb.combo
    /\ last_cb.allow_before
    /\ consecutive_sleep_blocks = MAX_CONSECUTIVE_SLEEPS

----------------------------------------------------------------------------
(* Properties of the module lifecycle (LifeSpec) *)

StartReturned == start_ret # {}
StopReturned == stop_ret # {}
LastTried == tried[Len(tried)]

\* C19: callback_thread tries the slots 15, 14, ... 0 in that order and stops at
\* the first one that registers, so it holds at most one slot; it is in its
\* callback-processing sleep only with a slot obtained; the slot it unregisters
\* is the one it registered; and once the callback object was created the
\* thread does not return without calling sceKernelDeleteCallback on it (all 16
\* slots failing included).
C19_SlotProbing ==
    variant = "push" =>
        /\ Len(tried) <= FirstSlot + 1
        /\ \A i \in 1..Len(tried) : tried[i] = FirstSlot - (i - 1)
        /\ Cardinality(held_slots) <= 1
        /\ held_slots # {} => held_slots = {LastTried}
        /\ th_pc = "sleep" => (reg_callback_ret >= 0 /\ held_slots = {slot})
        /\ unreg_slot # {} => unreg_slot = {LastTried}
        /\ (th_state = "exited" /\ cb_state # "none")
               => cb_state \in {"deleted", "delete_failed"}
        /\ (th_state = "exited" /\ Len(tried) = FirstSlot + 1 /\ unreg_slot = {})
               => (cb_state \in {"deleted", "delete_failed"} /\ held_slots = {})

\* the third slot tried was free; the worker slept, was woken, released it and returned
C19_Witness ==
    /\ variant = "push"
    /\ th_state = "exited"
    /\ tried = <<15, 14, 13>>
    /\ unreg_slot = {13}
    /\ held_slots = {}
    /\ cb_state = "deleted"

\* module_stop returned success: MODULE_OK in killswitch.c, the non-negative
\* result of the unregistration in killswitch_hold.c
StopSucceeded ==
    IF variant = "push" THEN stop_ret = {MODULE_OK} ELSE \E r \in stop_ret : r >= 0

WorkerAlive ==
    IF variant = "push" THEN th_state = "running"
    ELSE main_pc \in {"poll", "settle", "sleep"}

\* C12: once module_stop has returned, whatever it returned, the worker has been
\* told to stop and is gone: it is not running and holds no power-callback slot.
C12_StopLeavesNoWorker ==
    StopReturned => (~WorkerAlive /\ held_slots = {} /\ ~run)

\* C14: when a registration of start-up failed (the suspend handler, the
\* creation of the power callback, or its registration in every slot),
\* module_start has returned a non-zero status.
C14_RegistrationFailureIsFatal ==
    (StartReturned /\ reg_failures # {}) => 0 \notin start_ret

\* C15: when module_start has returned a non-zero status, the suspend handler is
\* not registered, no power-callback slot is held and no worker is running.
C15_FailedStartLeavesNothing ==
    (StartReturned /\ 0 \notin start_ret)
        => (~sys_registered /\ ~events_registered /\ held_slots = {} /\ ~WorkerAlive)

\* C13: module_stop never waits without end: while stop_callbacks sits in
\* sceKernelWaitThreadEnd, either the worker has ended, so the wait returns, or
\* the worker still has a step to take towards its return.
C13_WaitCanEnd ==
    loader_pc = "stop_wait" => (ENABLED stop_callbacks_wait_end \/ ENABLED CallbackThread)

----------------------------------------------------------------------------
(* Properties of the handlers under preemption (RaceSpec) *)

\* C16: whichever way the statements of the two handlers interleave, the
\* increment of consecutive_sleep_blocks is not taken once a power callback has
\* run to its end leaving the veto off (allow_sleep true): a release that races
\* with a SUSPEND_QUERY is not followed by a stale increment, which would leave
\* the veto off with a non-zero count.
C16_NoStaleIncrement ==
    [][consecutive_sleep_blocks' = consecutive_sleep_blocks + 1
           => ~(allow_sleep /\ cb_pc = "idle")]_vars

====
